---- MODULE Spec2Model ----
(***************************************************************************)
(* MovieDataset (src/movie_dataset.py): acquisition of the archive, its    *)
(* extraction, the ingestion of the extracted files into tables, and the   *)
(* five aggregations movie_type, actor_count, actor_distributions,         *)
(* releases and ages.                                                      *)
(*                                                                         *)
(* Conventions.  A Python value is a record [t, i, s]: its type tag, its   *)
(* numeric payload and its text.  A float's payload is the number in       *)
(* ten-thousandths (1.8 is 18000), so that the division by 100 of          *)
(* actor_distributions is exact; an int's payload is the int itself.       *)
(* Columns are held as read from the file (text cells, or the missing      *)
(* marker NaN); a table keeps the full ordered list of column names and,   *)
(* per row, the cells of the columns the aggregations read.                *)
(***************************************************************************)
EXTENDS Integers, Sequences, FiniteSets, TLC

VARIABLES
    archive,    \* the file at dataset_path: "absent", "complete", "partial", "corrupt"
    dir,        \* extracted_dir: [exists, files], files: file name -> content
    remote,     \* the files packed in the archive the remote location serves
    pc,         \* the process: "new", "downloaded", "extracted", "ready", "raised"
    attrs,      \* the instance's dynamically set attributes: dataset name -> table
    out,        \* the last call made on the instance and its outcome
    log         \* what the constructor printed in this process

vars == <<archive, dir, remote, pc, attrs, out, log>>

-----------------------------------------------------------------------------
(* Bounds of the model *)

\* the largest number of rows of the tables each specification draws
MaxMovieRows  == 2
MaxActorRows  == 3
MaxHeightRows == 2
MaxBirthRows  == 3

\* the number of calls followed after a failed one
MaxLaterCalls == 2

-----------------------------------------------------------------------------
(* Python values *)

Str(x)    == [t |-> "str",   i |-> 0, s |-> x]
NumStr(x) == [t |-> "str",   i |-> x, s |-> "#"]   \* the text of the number x
PyInt(n)  == [t |-> "int",   i |-> n, s |-> ""]
Float(x)  == [t |-> "float", i |-> x, s |-> ""]
Bool(b)   == [t |-> "bool",  i |-> IF b THEN 1 ELSE 0, s |-> ""]
None      == [t |-> "none",  i |-> 0, s |-> ""]
NaN       == [t |-> "nan",   i |-> 0, s |-> ""]    \* float("nan"), pandas' missing marker

\* the threshold and the divisor of the unit normalisation
CmThreshold == 10
CmPerMeter  == 100

\* one, in the unit of a float's payload
One == CmPerMeter * CmPerMeter

\* the float written whole.hundredths
Dec(whole, hundredths) == Float(whole * One + hundredths * CmPerMeter)

\* as IsInt, a numeric string taken for an integer too
IsIntLike(v) == v.t \in {"int", "bool"} \/ (v.t = "str" /\ v.s = "#")

\* isinstance(v, int): bool is a subclass of int
IsInt(v) == v.t \in {"int", "bool"}

\* isinstance(v, (int, float))
IsNumber(v) == v.t \in {"int", "bool", "float", "nan"}

\* isinstance(v, str)
IsStr(v) == v.t = "str"

\* pandas.notna
NotNa(v) == v.t \notin {"nan", "nat", "none"}

\* the payload of a number, in ten-thousandths
Scaled(v) == IF v.t \in {"int", "bool"} THEN v.i * One ELSE v.i

\* a comparison with NaN is false
Leq(a, b) == a.t # "nan" /\ b.t # "nan" /\ Scaled(a) <= Scaled(b)

-----------------------------------------------------------------------------
(* Sequences *)

Range(s) == {s[k] : k \in 1..Len(s)}

RECURSIVE Join(_, _)
Join(parts, sep) ==
    IF Len(parts) = 0 THEN ""
    ELSE IF Len(parts) = 1 THEN parts[1]
    ELSE parts[1] \o sep \o Join(Tail(parts), sep)

\* the sequences over S of length at most n
SeqsUpTo(S, n) == UNION {[1..k -> S] : k \in 0..n}

-----------------------------------------------------------------------------
(* Files and tables *)

\* the attribute value None
NoTable == [none |-> TRUE, columns |-> <<>>, rows |-> <<>>]

Table(cols, rows) == [none |-> FALSE, columns |-> cols, rows |-> rows]

\* a file: a tab-separated table of ncols columns, or text read_csv fails on
TsvFile(ncols, rows) == [kind |-> "tsv", ncols |-> ncols, rows |-> rows]
Garbage == [kind |-> "garbage", ncols |-> 0, rows |-> <<>>]

MovieFile  == <<"movie", "metadata", "tsv">>
CharFile   == <<"character", "metadata", "tsv">>
ReadmeFile == <<"README", "txt">>
OtherFile  == <<"notes", "pdf">>

column_names ==
    [n \in {"movie_metadata", "character_metadata", "plot_summaries",
            "tvtropes_clusters", "name_clusters"} |->
       CASE n = "movie_metadata" ->
              <<"wiki_movie_id", "freebase_movie_id", "movie_name", "release_date",
                "box_office_revenue", "runtime", "languages", "countries", "genres">>
         [] n = "character_metadata" ->
              <<"wiki_movie_id", "freebase_movie_id", "release_date", "character_name",
                "actor_dob", "actor_gender", "actor_height", "actor_ethnicity",
                "actor_name", "actor_age_at_release", "freebase_char_actor_map_id",
                "freebase_char_id", "freebase_actor_id">>
         [] n = "plot_summaries"    -> <<"wiki_movie_id", "plot_summary">>
         [] n = "tvtropes_clusters" -> <<"freebase_char_actor_map_id", "tvtrope_cluster">>
         [] n = "name_clusters"     -> <<"freebase_char_actor_map_id", "character_name">>]

\* Path.suffix
Suffix(path) == IF Len(path) > 1 THEN "." \o path[Len(path)] ELSE ""

\* Path.stem
Stem(path) == IF Len(path) > 1 THEN Join(SubSeq(path, 1, Len(path) - 1), ".") ELSE path[1]

\* file_path.stem.replace('.', '_')
DatasetName(path) ==
    IF Len(path) > 1 THEN Join(SubSeq(path, 1, Len(path) - 1), "_") ELSE path[1]

\* the positional labels read_csv gives a table without header
Positional(n) == [k \in 1..n |-> "col"]

\* as LoadedTable, the column names assigned whatever the number of columns
LoadedTableUnchecked(name, file) ==
    IF file.kind # "tsv" THEN NoTable
    ELSE IF name \in DOMAIN column_names
         THEN Table(column_names[name], file.rows)
         ELSE Table(Positional(file.ncols), file.rows)

\* load_dataset's value for the attribute: the table, or None when read_csv or
\* the assignment of the column names raises (a length mismatch is a ValueError)
LoadedTable(name, file) ==
    IF file.kind # "tsv" THEN NoTable
    ELSE IF name \in DOMAIN column_names
         THEN IF Len(column_names[name]) = file.ncols
              THEN Table(column_names[name], file.rows)
              ELSE NoTable
         ELSE Table(Positional(file.ncols), file.rows)

\* load_all_datasets over the files of the directory
LoadAll(files) ==
    LET tabular == {p \in DOMAIN files : Suffix(p) \in {".tsv", ".txt"}}
    IN  [n \in {DatasetName(p) : p \in tabular} |->
            LoadedTable(n, files[CHOOSE p \in tabular : DatasetName(p) = n])]

\* as Loaded, the attribute not compared with None
HasAttr(a, name) == name \in DOMAIN a

\* hasattr(self, name) and getattr(self, name) is not None
Loaded(a, name) == name \in DOMAIN a /\ ~a[name].none

-----------------------------------------------------------------------------
(* The outcome of a call *)

NoOut == [op |-> "", args |-> <<>>, exc |-> "", msg |-> "", value |-> <<>>]

Returned(op, args, value) ==
    [op |-> op, args |-> args, exc |-> "", msg |-> "", value |-> value]

Raised(op, args, exc, msg) ==
    [op |-> op, args |-> args, exc |-> exc, msg |-> msg, value |-> <<>>]

\* the failures the aggregations raise on a bad argument of the caller
InvalidArgument(o) ==
    /\ o.exc = "ValueError"
    /\ o.msg \in {"top_n must be an integer.", "Gender must be a string.",
                  "Height limits must be numerical values.", "Invalid gender value."}

\* the failures the aggregations raise on a table or a column that is not there
MissingData(o) ==
    /\ o.exc = "ValueError"
    /\ o.msg \in {"Movie metadata is not loaded.", "Character metadata is not loaded.",
                  "Missing required columns"}

-----------------------------------------------------------------------------
(* The constructor: download, extraction, ingestion *)

\* __init__ up to the download: the archive is fetched when it is absent.  The
\* transfer succeeds, fails before the file is opened (connection, status), or
\* fails in the middle of the stream, the file opened and partly written.
DownloadStep ==
    /\ pc = "new"
    /\ IF archive = "absent"
       THEN \E net \in {"ok", "refused", "broken"} :
              /\ archive' = CASE net = "ok"      -> "complete"
                              [] net = "refused" -> "absent"
                              [] net = "broken"  -> "partial"
              /\ log' = log \o <<"Downloading",
                                 IF net = "ok" THEN "Download complete." ELSE "Download failed">>
       ELSE UNCHANGED <<archive, log>>
    /\ pc' = "downloaded"
    /\ UNCHANGED <<dir, remote, attrs, out>>

\* what a partly written archive can leave behind when tarfile runs into its end
PartialDirs == {[exists |-> FALSE, files |-> <<>>]} \cup
               {[exists |-> TRUE, files |-> [p \in D |-> remote[p]]] : D \in SUBSET DOMAIN remote}

\* __init__'s extraction: extract_dataset runs when the directory is absent.
\* It catches tarfile.TarError only: an absent archive raises FileNotFoundError
\* out of the constructor, a truncated one ReadError (caught) or EOFError.
ExtractStep ==
    /\ pc = "downloaded"
    /\ IF dir.exists
       THEN /\ pc' = "extracted"
            /\ UNCHANGED <<dir, out, log>>
       ELSE CASE archive = "absent" ->
                   /\ pc' = "raised"
                   /\ out' = Raised("__init__", <<>>, "FileNotFoundError", "")
                   /\ log' = log \o <<"Extracting dataset...">>
                   /\ UNCHANGED dir
              [] archive = "corrupt" ->
                   /\ pc' = "extracted"
                   /\ log' = log \o <<"Extracting dataset...", "Error extracting dataset">>
                   /\ UNCHANGED <<dir, out>>
              [] archive = "complete" ->
                   /\ pc' = "extracted"
                   /\ dir' = [exists |-> TRUE, files |-> remote]
                   /\ log' = log \o <<"Extracting dataset...", "Extraction complete.">>
                   /\ UNCHANGED out
              [] archive = "partial" ->
                   \E end \in {"ReadError", "EOFError"} :
                      IF end = "ReadError"
                      THEN /\ pc' = "extracted"
                           /\ log' = log \o <<"Extracting dataset...", "Error extracting dataset">>
                           /\ UNCHANGED <<dir, out>>
                      ELSE /\ pc' = "raised"
                           /\ out' = Raised("__init__", <<>>, "EOFError", "")
                           /\ log' = log \o <<"Extracting dataset...">>
                           /\ dir' \in PartialDirs
    /\ UNCHANGED <<archive, remote, attrs>>

\* __init__'s ingestion: load_all_datasets
LoadStep ==
    /\ pc = "extracted"
    /\ IF dir.exists
       THEN /\ attrs' = LoadAll(dir.files)
            /\ UNCHANGED log
       ELSE /\ log' = log \o <<"Error: Extracted directory does not exist.">>
            /\ UNCHANGED attrs
    /\ pc' = "ready"
    /\ UNCHANGED <<archive, dir, remote, out>>

\* the process ends and another starts: the files stay, the instance is new
Restart ==
    /\ pc \in {"ready", "raised"}
    /\ pc' = "new"
    /\ attrs' = <<>>
    /\ out' = NoOut
    /\ log' = <<>>
    /\ UNCHANGED <<archive, dir, remote>>

-----------------------------------------------------------------------------
(* pandas operations the aggregations use *)

RECURSIVE Distinct(_)
\* the distinct values of a sequence, in the order of their first occurrence
Distinct(s) ==
    IF s = <<>> THEN <<>>
    ELSE LET front == Distinct(SubSeq(s, 1, Len(s) - 1))
         IN  IF s[Len(s)] \in Range(front) THEN front ELSE Append(front, s[Len(s)])

Occurrences(s, x) == Cardinality({k \in 1..Len(s) : s[k] = x})

RECURSIVE Flatten(_)
Flatten(ss) == IF ss = <<>> THEN <<>> ELSE Head(ss) \o Flatten(Tail(ss))

RECURSIVE SortDescByCount(_)
\* rows <<value, count>> by count, largest first, equal counts in their given order
SortDescByCount(rows) ==
    IF rows = <<>> THEN <<>>
    ELSE LET best == CHOOSE k \in 1..Len(rows) :
                        /\ \A j \in 1..Len(rows) : rows[j][2] <= rows[k][2]
                        /\ \A j \in 1..(k - 1) : rows[j][2] < rows[k][2]
         IN  <<rows[best]>> \o
             SortDescByCount(SubSeq(rows, 1, best - 1) \o SubSeq(rows, best + 1, Len(rows)))

RECURSIVE SortedSeq(_)
\* a set of integers as an ascending sequence
SortedSeq(S) ==
    IF S = {} THEN <<>>
    ELSE LET least == CHOOSE x \in S : \A y \in S : x <= y
         IN  <<least>> \o SortedSeq(S \ {least})

\* Series.value_counts(): the distinct non-missing values with their counts,
\* the most frequent first
ValueCounts(s) ==
    LET present == SelectSeq(s, NotNa)
        values  == Distinct(present)
    IN  SortDescByCount([k \in 1..Len(values) |-> <<values[k], Occurrences(present, values[k])>>])

\* Series.value_counts().sort_index() of a series of integers (missing as NaN)
CountsByIndex(s) ==
    LET present == SelectSeq(s, NotNa)
        keys    == SortedSeq({present[k].i : k \in 1..Len(present)})
    IN  [k \in 1..Len(keys) |->
            <<keys[k], Cardinality({j \in 1..Len(present) : present[j].i = keys[k]})>>]

\* DataFrame.head(n): the first n rows, or all but the last -n when n is negative
HeadRows(rows, n) ==
    IF n >= 0
    THEN SubSeq(rows, 1, IF n < Len(rows) THEN n ELSE Len(rows))
    ELSE SubSeq(rows, 1, IF Len(rows) + n > 0 THEN Len(rows) + n ELSE 0)

\* table[name], the cells of a column
Column(table, name) == [k \in 1..Len(table.rows) |-> table.rows[k][name]]

HasColumns(table, names) == names \subseteq Range(table.columns)

-----------------------------------------------------------------------------
(* The genres cell: the text of a dict display {key: name, ...}, or other text *)

GenreText(kv) == [t |-> "str", ok |-> TRUE,  kv |-> kv]
GenreBad      == [t |-> "str", ok |-> FALSE, kv |-> <<>>]
GenreNaN      == [t |-> "nan", ok |-> FALSE, kv |-> <<>>]

RECURSIVE EvalDict(_)
\* eval(x) of a dict display: the entries in the order their keys first appear,
\* a repeated key keeping its place and taking the later value
EvalDict(kv) ==
    IF kv = <<>> THEN <<>>
    ELSE LET front == EvalDict(SubSeq(kv, 1, Len(kv) - 1))
             last  == kv[Len(kv)]
         IN  IF \E k \in 1..Len(front) : front[k][1] = last[1]
             THEN [k \in 1..Len(front) |-> IF front[k][1] = last[1] THEN last ELSE front[k]]
             ELSE Append(front, last)

\* list(eval(x).values())
DictValues(cell) == LET d == EvalDict(cell.kv) IN [k \in 1..Len(d) |-> Str(d[k][2])]

-----------------------------------------------------------------------------
(* movie_type *)

movie_type(a, top_n) ==
    IF ~IsInt(top_n)
    THEN Raised("movie_type", <<top_n>>, "ValueError", "top_n must be an integer.")
    ELSE IF ~Loaded(a, "movie_metadata")
    THEN Raised("movie_type", <<top_n>>, "ValueError", "Movie metadata is not loaded.")
    ELSE IF ~HasColumns(a["movie_metadata"], {"genres"})
    THEN Raised("movie_type", <<top_n>>, "KeyError", "genres")
    ELSE LET genre_series == SelectSeq(Column(a["movie_metadata"], "genres"), NotNa)
         IN  IF \E k \in 1..Len(genre_series) : ~genre_series[k].ok
             THEN Raised("movie_type", <<top_n>>, "SyntaxError", "")
             ELSE LET genre_list == [k \in 1..Len(genre_series) |-> DictValues(genre_series[k])]
                      genre_counts == ValueCounts(Flatten(genre_list))
                  IN  Returned("movie_type", <<top_n>>,
                               [k \in 1..Len(HeadRows(genre_counts, top_n.i)) |->
                                   <<genre_counts[k][1].s, genre_counts[k][2]>>])

-----------------------------------------------------------------------------
(* actor_count *)

\* as NUniqueByMovie, every row with a name counted (count() for nunique())
CountByMovie(table) ==
    LET rows == table.rows
        ids  == {rows[k].wiki_movie_id.i : k \in {j \in 1..Len(rows) : NotNa(rows[j].wiki_movie_id)}}
        keys == SortedSeq(ids)
    IN  [k \in 1..Len(keys) |->
            PyInt(Cardinality({j \in 1..Len(rows) :
                                 /\ NotNa(rows[j].wiki_movie_id)
                                 /\ rows[j].wiki_movie_id.i = keys[k]
                                 /\ NotNa(rows[j].actor_name)}))]

\* groupby("wiki_movie_id")["actor_name"].nunique(): per non-missing movie id,
\* in ascending order, the number of distinct non-missing actor names
NUniqueByMovie(table) ==
    LET rows == table.rows
        ids  == {rows[k].wiki_movie_id.i : k \in {j \in 1..Len(rows) : NotNa(rows[j].wiki_movie_id)}}
        keys == SortedSeq(ids)
    IN  [k \in 1..Len(keys) |->
            PyInt(Cardinality({rows[j].actor_name.s :
                                 j \in {j \in 1..Len(rows) :
                                          /\ NotNa(rows[j].wiki_movie_id)
                                          /\ rows[j].wiki_movie_id.i = keys[k]
                                          /\ NotNa(rows[j].actor_name)}}))]

\* the plot it shows is no part of the returned table
actor_count(a) ==
    IF ~Loaded(a, "character_metadata")
    THEN Raised("actor_count", <<>>, "ValueError", "Character metadata is not loaded.")
    ELSE IF ~HasColumns(a["character_metadata"], {"wiki_movie_id", "actor_name"})
    THEN Raised("actor_count", <<>>, "ValueError", "Missing required columns")
    ELSE LET actor_counts == NUniqueByMovie(a["character_metadata"])
             histogram    == CountsByIndex(actor_counts)
         IN  Returned("actor_count", <<>>, histogram)

-----------------------------------------------------------------------------
(* actor_distributions *)

\* as ToNumeric, a number of the table divided by 100 as it is read
ToNumericInMeters(cell) ==
    CASE cell.t = "float" -> Float(cell.i \div CmPerMeter)
      [] cell.t \in {"int", "bool"} -> Float(cell.i * CmPerMeter)
      [] cell.t = "str" /\ cell.s = "#" -> Float(cell.i \div CmPerMeter)
      [] OTHER -> NaN

\* pd.to_numeric(errors="coerce") of a cell: a number stays, the text of a
\* number becomes that number, anything else becomes NaN
ToNumeric(cell) ==
    CASE cell.t = "float" -> cell
      [] cell.t \in {"int", "bool"} -> Float(cell.i * One)
      [] cell.t = "str" /\ cell.s = "#" -> Float(cell.i)
      [] OTHER -> NaN

\* as Standardize, no height converted
StandardizeNothing(h) == h

\* as Standardize, a value over 10 taken for millimeters
StandardizeFromMillimeters(h) ==
    IF Scaled(h) > CmThreshold * One THEN Float(h.i \div (CmThreshold * CmPerMeter)) ELSE h

\* df.loc[df["actor_height"] > 10, "actor_height"] /= 100
Standardize(h) ==
    IF Scaled(h) > CmThreshold * One THEN Float(h.i \div CmPerMeter) ELSE h

\* table[name] = cells, for a column the table has
WithColumn(table, name, cells) ==
    [table EXCEPT !.rows = [k \in 1..Len(table.rows) |->
                               [table.rows[k] EXCEPT ![name] = cells[k]]]]

\* a frame: the rows kept, each with its index label
Frame(rows) == [k \in 1..Len(rows) |-> [index |-> k, row |-> rows[k]]]

\* as DropMissingHeights, the rows without a height kept
KeepMissingHeights(rows) == Frame(rows)

\* self.character_metadata.dropna(subset=["actor_height"]).copy()
DropMissingHeights(rows) == SelectSeq(Frame(rows), LAMBDA e : NotNa(e.row.actor_height))

\* the result is [out, attrs]: the coercion of actor_height is kept in the table
\* whatever the outcome past it; the plot is no part of the returned frame
actor_distributions(a, gender, max_height, min_height) ==
    LET args == <<gender, max_height, min_height>> IN
    IF ~IsStr(gender)
    THEN [out |-> Raised("actor_distributions", args, "ValueError", "Gender must be a string."),
          attrs |-> a]
    ELSE IF ~IsNumber(max_height) \/ ~IsNumber(min_height)
    THEN [out |-> Raised("actor_distributions", args, "ValueError",
                         "Height limits must be numerical values."),
          attrs |-> a]
    ELSE IF ~Loaded(a, "character_metadata")
    THEN [out |-> Raised("actor_distributions", args, "ValueError",
                         "Character metadata is not loaded."),
          attrs |-> a]
    ELSE IF ~HasColumns(a["character_metadata"], {"actor_gender", "actor_height"})
    THEN [out |-> Raised("actor_distributions", args, "ValueError", "Missing required columns"),
          attrs |-> a]
    ELSE LET heights == Column(a["character_metadata"], "actor_height")
             coerced == WithColumn(a["character_metadata"], "actor_height",
                                   [k \in 1..Len(heights) |-> ToNumeric(heights[k])])
             after   == [a EXCEPT !["character_metadata"] = coerced]
             dropped == DropMissingHeights(coerced.rows)
             df      == [k \in 1..Len(dropped) |->
                            [dropped[k] EXCEPT !.row.actor_height = Standardize(@)]]
             valid_genders == Range(SelectSeq([k \in 1..Len(df) |-> df[k].row.actor_gender],
                                              NotNa)) \cup {Str("All")}
             by_gender == IF gender # Str("All")
                          THEN SelectSeq(df, LAMBDA e : e.row.actor_gender = gender)
                          ELSE df
             in_range == SelectSeq(by_gender,
                                   LAMBDA e : /\ Leq(min_height, e.row.actor_height)
                                              /\ Leq(e.row.actor_height, max_height))
         IN  IF gender # Str("All") /\ gender \notin valid_genders
             THEN [out |-> Raised("actor_distributions", args, "ValueError",
                                  "Invalid gender value."),
                   attrs |-> after]
             ELSE [out |-> Returned("actor_distributions", args, in_range), attrs |-> after]

-----------------------------------------------------------------------------
(* Dates: the text of a date is <<year>> or <<year, month>> *)

DateText(d)     == [t |-> "str", d |-> d]
DateNaN         == [t |-> "nan", d |-> <<>>]
Timestamp(y, m) == [t |-> "dt",  d |-> <<y, m>>]
NaT             == [t |-> "nat", d |-> <<>>]

\* pd.to_datetime(errors="coerce") of a cell: a date within the range of
\* pandas.Timestamp (1677-09-21 to 2262-04-11) is parsed, a timestamp stays,
\* anything else becomes NaT
ToDatetime(cell) ==
    CASE cell.t = "dt" -> cell
      [] cell.t = "str" /\ Len(cell.d) \in {1, 2} ->
           IF /\ cell.d[1] > 1677 /\ cell.d[1] < 2262
              /\ (Len(cell.d) = 2 => cell.d[2] \in 1..12)
           THEN Timestamp(cell.d[1], IF Len(cell.d) = 2 THEN cell.d[2] ELSE 1)
           ELSE NaT
      [] OTHER -> NaT

\* Series.dt.year and Series.dt.month of a cell: missing for NaT
DtYear(cell)  == IF cell.t = "dt" THEN PyInt(cell.d[1]) ELSE NaN
DtMonth(cell) == IF cell.t = "dt" THEN PyInt(cell.d[2]) ELSE NaN

-----------------------------------------------------------------------------
(* releases *)

\* table[name] = cells: the column is replaced, or appended when it is new
SetColumn(table, name, cells) ==
    [table EXCEPT
       !.columns = IF name \in Range(@) THEN @ ELSE Append(@, name),
       !.rows = [k \in 1..Len(@) |->
                   [c \in DOMAIN @[k] \cup {name} |->
                       IF c = name THEN cells[k] ELSE @[k][c]]]]

\* bool(genre)
Truthy(v) == CASE v.t = "none" -> FALSE
               [] v.t = "str"  -> v.s # ""
               [] v.t \in {"int", "bool", "float"} -> v.i # 0
               [] OTHER -> TRUE

\* the result is [out, attrs]: release_date is parsed in place and the column
\* Year is set on the table before anything can fail
releases(a, genre) ==
    IF ~Loaded(a, "movie_metadata")
    THEN [out |-> Raised("releases", <<genre>>, "ValueError", "Movie metadata is not loaded."),
          attrs |-> a]
    ELSE IF ~HasColumns(a["movie_metadata"], {"release_date", "genres"})
    THEN [out |-> Raised("releases", <<genre>>, "ValueError", "Missing required columns"),
          attrs |-> a]
    ELSE LET dates  == Column(a["movie_metadata"], "release_date")
             parsed == WithColumn(a["movie_metadata"], "release_date",
                                  [k \in 1..Len(dates) |-> ToDatetime(dates[k])])
             withYear == SetColumn(parsed, "Year",
                                   [k \in 1..Len(dates) |-> DtYear(parsed.rows[k].release_date)])
             after == [a EXCEPT !["movie_metadata"] = withYear]
             df == SelectSeq(withYear.rows, LAMBDA r : NotNa(r.Year))
             filtered == IF Truthy(genre)
                         THEN SelectSeq(df, LAMBDA r : /\ NotNa(r.genres)
                                                       /\ genre \in Range(DictValues(r.genres)))
                         ELSE df
         IN  IF Truthy(genre) /\ \E k \in 1..Len(df) : NotNa(df[k].genres) /\ ~df[k].genres.ok
             THEN [out |-> Raised("releases", <<genre>>, "SyntaxError", ""), attrs |-> after]
             ELSE [out |-> Returned("releases", <<genre>>,
                                    CountsByIndex([k \in 1..Len(filtered) |-> filtered[k].Year])),
                   attrs |-> after]

-----------------------------------------------------------------------------
(* ages *)

\* as Upper, the case kept
UpperNothing(s) == s

\* str.upper() on the mode strings of the model
Upper(s) == CASE s = "y" -> "Y"
              [] s = "m" -> "M"
              [] s = "invalid" -> "INVALID"
              [] OTHER -> s

\* the result is [out, attrs]: actor_dob is parsed in place before the mode is read
ages(a, mode) ==
    IF ~Loaded(a, "character_metadata")
    THEN [out |-> Raised("ages", <<mode>>, "ValueError", "Character metadata is not loaded."),
          attrs |-> a]
    ELSE IF ~HasColumns(a["character_metadata"], {"actor_dob"})
    THEN [out |-> Raised("ages", <<mode>>, "ValueError", "Missing required columns"),
          attrs |-> a]
    ELSE LET dobs   == Column(a["character_metadata"], "actor_dob")
             parsed == WithColumn(a["character_metadata"], "actor_dob",
                                  [k \in 1..Len(dobs) |-> ToDatetime(dobs[k])])
             after  == [a EXCEPT !["character_metadata"] = parsed]
             dob    == Column(parsed, "actor_dob")
         IN  IF ~IsStr(mode)
             THEN [out |-> Raised("ages", <<mode>>, "AttributeError", "upper"), attrs |-> after]
             ELSE LET m == IF Upper(mode.s) \in {"Y", "M"} THEN Upper(mode.s) ELSE "Y"
                  IN  IF m = "Y"
                      THEN [out |-> Returned("ages", <<mode>>,
                                       [name |-> "Year",
                                        rows |-> CountsByIndex([k \in 1..Len(dob) |-> DtYear(dob[k])])]),
                            attrs |-> after]
                      ELSE [out |-> Returned("ages", <<mode>>,
                                       [name |-> "Month",
                                        rows |-> CountsByIndex([k \in 1..Len(dob) |-> DtMonth(dob[k])])]),
                            attrs |-> after]

-----------------------------------------------------------------------------
(* The calls made on a constructed instance *)

\* the arguments the calls are made with
TopNs   == {PyInt(n) : n \in -1..3} \cup {Str("ten"), NumStr(10 * One), Float(2 * One)}
Genders == {Str("All"), Str("M"), Str("F"), Str("X"), PyInt(123)}
\* <<max_height, min_height>>
HeightLimits == {<<Dec(2, 0), Dec(1, 50)>>, <<Dec(1, 50), PyInt(2)>>, <<PyInt(2), Dec(1, 50)>>,
                 <<Str("tall"), PyInt(160)>>, <<PyInt(180), Str("short")>>}
Genres  == {None, Str(""), Str("A"), Str("C")}
Modes   == {Str("y"), Str("Y"), Str("m"), Str("M"), Str("invalid"), PyInt(1)}

MovieTypeCall ==
    /\ pc = "ready"
    /\ \E top_n \in TopNs : out' = movie_type(attrs, top_n)
    /\ UNCHANGED <<archive, dir, remote, pc, attrs, log>>

ActorCountCall ==
    /\ pc = "ready"
    /\ out' = actor_count(attrs)
    /\ UNCHANGED <<archive, dir, remote, pc, attrs, log>>

ActorDistributionsCall ==
    /\ pc = "ready"
    /\ \E gender \in Genders, limits \in HeightLimits :
          LET r == actor_distributions(attrs, gender, limits[1], limits[2])
          IN  out' = r.out /\ attrs' = r.attrs
    /\ UNCHANGED <<archive, dir, remote, pc, log>>

ReleasesCall ==
    /\ pc = "ready"
    /\ \E genre \in Genres :
          LET r == releases(attrs, genre) IN out' = r.out /\ attrs' = r.attrs
    /\ UNCHANGED <<archive, dir, remote, pc, log>>

AgesCall ==
    /\ pc = "ready"
    /\ \E mode \in Modes :
          LET r == ages(attrs, mode) IN out' = r.out /\ attrs' = r.attrs
    /\ UNCHANGED <<archive, dir, remote, pc, log>>

\* a process start: the constructor's steps, and the start of the next process
Lifecycle ==
    \/ DownloadStep
    \/ ExtractStep
    \/ LoadStep
    \/ Restart

Next ==
    \/ Lifecycle
    \/ MovieTypeCall
    \/ ActorCountCall
    \/ ActorDistributionsCall
    \/ ReleasesCall
    \/ AgesCall

-----------------------------------------------------------------------------
(* The data the specifications draw *)

MovieRow(date, genres) == [release_date |-> date, genres |-> genres]

CharRow(id, dob, gender, height, name) ==
    [wiki_movie_id |-> id, actor_dob |-> dob, actor_gender |-> gender,
     actor_height |-> height, actor_name |-> name]

ReleaseDates == {DateText(<<2001>>), DateText(<<2002, 5>>), DateText(<<1010, 12>>), DateNaN}

GenreCells ==
    {GenreNaN, GenreBad, GenreText(<<>>),
     GenreText(<< <<"k1", "A">> >>),
     GenreText(<< <<"k1", "A">>, <<"k2", "B">> >>),
     GenreText(<< <<"k1", "B">>, <<"k2", "B">> >>),
     GenreText(<< <<"k1", "A">>, <<"k1", "B">> >>)}

MovieRows == {MovieRow(d, g) : d \in ReleaseDates, g \in GenreCells}

ActorRows == {CharRow(id, DateNaN, NaN, NaN, name) :
                 id \in {PyInt(1), PyInt(2), NaN}, name \in {Str("a"), Str("b"), NaN}}

HeightCells == {Dec(1, 50), Dec(180, 0), Dec(1500, 0), NumStr(2 * One), Str("tall"), NaN}

HeightRows == {CharRow(PyInt(1), DateNaN, g, h, Str("a")) :
                  g \in {Str("M"), Str("F"), NaN}, h \in HeightCells}

BirthDates == {DateText(<<1980>>), DateText(<<1980, 5>>), DateText(<<2001, 5>>),
               DateText(<<1010, 12>>), DateText(<<2001, 13>>), DateNaN}

BirthRows == {CharRow(PyInt(1), d, NaN, NaN, Str("a")) : d \in BirthDates}

SampleMovieRows ==
    <<MovieRow(DateText(<<2001>>), GenreText(<< <<"k1", "A">>, <<"k2", "B">> >>)),
      MovieRow(DateText(<<1010, 12>>), GenreText(<< <<"k1", "B">> >>))>>

SampleCharRows ==
    <<CharRow(PyInt(1), DateText(<<1980, 5>>), Str("M"), Dec(180, 0), Str("a")),
      CharRow(PyInt(1), DateNaN, Str("F"), Str("tall"), NaN)>>

MovieColumns == Len(column_names["movie_metadata"])
CharColumns  == Len(column_names["character_metadata"])

\* the files of the archive: the two tables, a text file and a file that is no table
Dataset(movie, char) ==
    (MovieFile :> movie) @@ (CharFile :> char) @@
    (ReadmeFile :> TsvFile(1, <<>>)) @@ (OtherFile :> Garbage)

SmallDatasets ==
    {Dataset(m, c) :
       m \in {Garbage, TsvFile(MovieColumns - 1, SampleMovieRows),
              TsvFile(MovieColumns, SampleMovieRows)},
       c \in {Garbage, TsvFile(CharColumns + 1, SampleCharRows),
              TsvFile(CharColumns, SampleCharRows)}}

MovieDatasets ==
    {Dataset(TsvFile(MovieColumns, rows), TsvFile(CharColumns, SampleCharRows)) :
       rows \in SeqsUpTo(MovieRows, MaxMovieRows)}

ActorDatasets ==
    {Dataset(TsvFile(MovieColumns, SampleMovieRows), TsvFile(CharColumns, rows)) :
       rows \in SeqsUpTo(ActorRows, MaxActorRows)}

HeightDatasets ==
    {Dataset(TsvFile(MovieColumns, SampleMovieRows), TsvFile(CharColumns, rows)) :
       rows \in SeqsUpTo(HeightRows, MaxHeightRows)}

BirthDatasets ==
    {Dataset(TsvFile(MovieColumns, SampleMovieRows), TsvFile(CharColumns, rows)) :
       rows \in SeqsUpTo(BirthRows, MaxBirthRows)}

NoDir == [exists |-> FALSE, files |-> <<>>]

\* a first process start over the given datasets and states of the download directory
InitOver(datasets, archives, extracted) ==
    /\ remote \in datasets
    /\ archive \in archives
    /\ dir \in {IF e THEN [exists |-> TRUE, files |-> remote] ELSE NoDir : e \in extracted}
    /\ pc = "new"
    /\ attrs = <<>>
    /\ out = NoOut
    /\ log = <<>>

\* any state of the download directory, a few datasets
Init == InitOver(SmallDatasets, {"absent", "complete", "corrupt"}, BOOLEAN)

Spec == Init /\ [][Next]_vars

\* the archive downloaded and extracted, every movie_metadata table of the bound,
\* and the calls that read it
InitMovies == InitOver(MovieDatasets, {"complete"}, {TRUE})

NextMovies == Lifecycle \/ MovieTypeCall \/ ReleasesCall

SpecMovies == InitMovies /\ [][NextMovies]_vars

\* ... every character_metadata table of movie ids and actor names, and actor_count
InitActors == InitOver(ActorDatasets, {"complete"}, {TRUE})

NextActors == Lifecycle \/ ActorCountCall

SpecActors == InitActors /\ [][NextActors]_vars

\* ... every character_metadata table of genders and heights, and actor_distributions
InitHeights == InitOver(HeightDatasets, {"complete"}, {TRUE})

NextHeights == Lifecycle \/ ActorDistributionsCall

SpecHeights == InitHeights /\ [][NextHeights]_vars

\* ... every character_metadata table of birth dates, and ages
InitBirths == InitOver(BirthDatasets, {"complete"}, {TRUE})

NextBirths == Lifecycle \/ AgesCall

SpecBirths == InitBirths /\ [][NextBirths]_vars

-----------------------------------------------------------------------------
(* What the claims speak of *)

\* the tables as ingestion made them, before any aggregation touched them
Ingested(name) == LoadAll(dir.files)[name]

RECURSIVE SumCounts(_)
\* the sum of the count column of rows <<value, count>>
SumCounts(rows) == IF rows = <<>> THEN 0 ELSE rows[1][2] + SumCounts(Tail(rows))

\* the mapping a genres cell serializes: each key with the name written for it
\* last; a missing cell and a cell that is no mapping have no genres
GenreMapping(cell) ==
    IF cell.t = "str" /\ cell.ok
    THEN [key \in {cell.kv[k][1] : k \in 1..Len(cell.kv)} |->
            cell.kv[CHOOSE k \in 1..Len(cell.kv) :
                       /\ cell.kv[k][1] = key
                       /\ \A j \in (k + 1)..Len(cell.kv) : cell.kv[j][1] # key][2]]
    ELSE <<>>

\* the genre names of a cell
GenreNamesOf(cell) == {GenreMapping(cell)[key] : key \in DOMAIN GenreMapping(cell)}

\* the occurrences of a genre name across the cells of the table
GenreCount(table, g) ==
    Cardinality({e \in UNION {{<<k, key>> : key \in DOMAIN GenreMapping(table.rows[k].genres)} :
                                k \in 1..Len(table.rows)} :
                   GenreMapping(table.rows[e[1]].genres)[e[2]] = g})

GenreNames(table) == UNION {GenreNamesOf(table.rows[k].genres) : k \in 1..Len(table.rows)}

\* a call of movie_type(n), n a positive int, on a loaded movie_metadata with at
\* least n distinct genre names
MovieTypeTopN ==
    /\ out.op = "movie_type"
    /\ out.args[1].t = "int"
    /\ out.args[1].i >= 1
    /\ Loaded(attrs, "movie_metadata")
    /\ out.args[1].i <= Cardinality(GenreNames(attrs["movie_metadata"]))

\* the rows <<Movie_Type, Count>> are the n most frequent genres with their counts
IsTopN(rows, table, n) ==
    /\ Len(rows) = n
    /\ \A k \in 1..Len(rows) : rows[k][2] = GenreCount(table, rows[k][1])
    /\ \A j, k \in 1..Len(rows) : j < k => rows[j][2] >= rows[k][2] /\ rows[j][1] # rows[k][1]
    /\ \A g \in GenreNames(table) \ {rows[k][1] : k \in 1..Len(rows)} :
          \A k \in 1..Len(rows) : GenreCount(table, g) <= rows[k][2]

\* C1: for every loaded movie_metadata and every positive integer n not greater
\* than the number of its distinct genre names, movie_type(n) returns exactly n
\* rows, each with the number of occurrences of its genre, in non-increasing
\* order of count, no genre left out having a larger count than one returned.
C1_TopN ==
    MovieTypeTopN =>
        /\ out.exc = ""
        /\ IsTopN(out.value, attrs["movie_metadata"], out.args[1].i)

\* C1 on the tables none of whose genres cells is malformed
C1_TopNWellFormed ==
    (MovieTypeTopN /\ \A k \in 1..Len(attrs["movie_metadata"].rows) :
                         attrs["movie_metadata"].rows[k].genres # GenreBad) =>
        /\ out.exc = ""
        /\ IsTopN(out.value, attrs["movie_metadata"], out.args[1].i)

\* a call whose arguments fail the type validation
TypeInvalid(o) ==
    \/ o.op = "movie_type" /\ o.args[1].t \notin {"int", "bool"}
    \/ /\ o.op = "actor_distributions"
       /\ \/ o.args[1].t # "str"
          \/ o.args[2].t \notin {"int", "bool", "float", "nan"}
          \/ o.args[3].t \notin {"int", "bool", "float", "nan"}

\* C2: a call of movie_type with a non-integer top_n (a numeric string too), or of
\* actor_distributions with a non-string gender or a non-numeric height limit,
\* fails with the invalid-argument signal whether or not the tables are loaded,
\* and leaves every table as it was.
C2_TypeValidationFirst ==
    [][(pc = "ready" /\ pc' = "ready" /\ TypeInvalid(out')) =>
          (InvalidArgument(out') /\ attrs' = attrs)]_vars

\* movie_type("10") has failed on an instance without tables
C2_Witness ==
    /\ pc = "ready"
    /\ out.op = "movie_type"
    /\ out.args[1] = NumStr(10 * One)
    /\ InvalidArgument(out)
    /\ attrs = <<>>

\* C3: movie_type(top_n) with an integer top_n <= 0 fails with the
\* invalid-argument signal and returns no table.
C3_NonPositiveRejected ==
    (out.op = "movie_type" /\ out.args[1].t = "int" /\ out.args[1].i <= 0) =>
        InvalidArgument(out)

-----------------------------------------------------------------------------
(* actor_count *)

\* the movie ids of the table, and the distinct actor names of a movie
MovieIds(table) ==
    {table.rows[k].wiki_movie_id.i :
       k \in {j \in 1..Len(table.rows) : table.rows[j].wiki_movie_id.t # "nan"}}

ActorNames(table, id) ==
    {table.rows[k].actor_name.s :
       k \in {j \in 1..Len(table.rows) :
                /\ table.rows[j].wiki_movie_id.t # "nan"
                /\ table.rows[j].wiki_movie_id.i = id
                /\ table.rows[j].actor_name.t # "nan"}}

\* each row <<k, c>> says c movies have exactly k distinct actor names; there is one
\* row per k some movie has, in ascending order of k
IsActorHistogram(rows, table) ==
    /\ \A r \in 1..Len(rows) :
          /\ rows[r][2] = Cardinality({id \in MovieIds(table) :
                                          Cardinality(ActorNames(table, id)) = rows[r][1]})
          /\ rows[r][2] > 0
    /\ \A id \in MovieIds(table) :
          \E r \in 1..Len(rows) : rows[r][1] = Cardinality(ActorNames(table, id))
    /\ \A q, r \in 1..Len(rows) : q < r => rows[q][1] < rows[r][1]

\* C4, as claimed: on a loaded character_metadata the Movie_Count column of
\* actor_count() sums to the number of distinct wiki_movie_id values that have at
\* least one row carrying an actor_name, and each row (k, c) says that exactly c
\* movies have exactly k distinct actor names.
C4_SumOverMoviesWithAnActor ==
    (out.op = "actor_count" /\ Loaded(attrs, "character_metadata")) =>
        /\ out.exc = ""
        /\ SumCounts(out.value) =
              Cardinality({id \in MovieIds(Ingested("character_metadata")) :
                              ActorNames(Ingested("character_metadata"), id) # {}})
        /\ IsActorHistogram(out.value, Ingested("character_metadata"))

\* C4, amended: on a loaded character_metadata the Movie_Count column of
\* actor_count() sums to the number of distinct non-missing wiki_movie_id values of
\* the table, a movie none of whose rows carries an actor_name counted in the row
\* for 0 actors; each row (k, c) says that exactly c movies have exactly k distinct
\* actor names, one row per k in ascending order.
C4_SumOverMovies ==
    (out.op = "actor_count" /\ Loaded(attrs, "character_metadata")) =>
        /\ out.exc = ""
        /\ SumCounts(out.value) = Cardinality(MovieIds(Ingested("character_metadata")))
        /\ IsActorHistogram(out.value, Ingested("character_metadata"))

\* actor_count() has returned a histogram with a row for 0 actors and a row for 2
C4_Witness ==
    /\ out.op = "actor_count"
    /\ out.exc = ""
    /\ Len(out.value) = 2
    /\ out.value[1][1] = 0
    /\ out.value[2][1] = 2

-----------------------------------------------------------------------------
(* actor_distributions *)

\* a height cell that holds a number, as a number or as its text
HasNumericHeight(cell) == cell.t = "float" \/ (cell.t = "str" /\ cell.s = "#")

\* the height of such a cell in meters: a value over 10 is taken for centimeters
NormalizedHeight(cell) ==
    IF cell.i > CmThreshold * One THEN cell.i \div CmPerMeter ELSE cell.i

\* the genders of the rows that have a numeric height
GendersWithHeight(table) ==
    {table.rows[k].actor_gender :
       k \in {j \in 1..Len(table.rows) :
                /\ HasNumericHeight(table.rows[j].actor_height)
                /\ table.rows[j].actor_gender.t # "nan"}}

\* the rows of the table a call with these arguments is to return
RowsInRange(table, gender, max_height, min_height) ==
    {k \in 1..Len(table.rows) :
       /\ HasNumericHeight(table.rows[k].actor_height)
       /\ Scaled(min_height) <= NormalizedHeight(table.rows[k].actor_height)
       /\ NormalizedHeight(table.rows[k].actor_height) <= Scaled(max_height)
       /\ (gender # Str("All") => table.rows[k].actor_gender = gender)}

\* a call of actor_distributions with a string and two numbers on a loaded table
HeightsCall ==
    /\ out.op = "actor_distributions"
    /\ ~TypeInvalid(out)
    /\ Loaded(attrs, "character_metadata")

ValidGender(table, gender) == gender = Str("All") \/ gender \in GendersWithHeight(table)

\* C5: on a loaded character_metadata, with a valid gender and numeric bounds,
\* actor_distributions returns exactly the rows with a numeric height whose
\* normalized height lies in [min_height, max_height] (and whose gender is the one
\* asked for, unless it is "All"), each with its normalized height; with the
\* bounds (2.0, 1.5) every returned height is in meters, none greater than 10.
C5_RowsInRange ==
    (HeightsCall /\ ValidGender(Ingested("character_metadata"), out.args[1])) =>
        LET table == Ingested("character_metadata")
            rows  == out.value
        IN  /\ out.exc = ""
            /\ {rows[r].index : r \in 1..Len(rows)} =
                  RowsInRange(table, out.args[1], out.args[2], out.args[3])
            /\ \A q, r \in 1..Len(rows) : q < r => rows[q].index < rows[r].index
            /\ \A r \in 1..Len(rows) :
                  rows[r].row =
                     [attrs["character_metadata"].rows[rows[r].index] EXCEPT
                        !.actor_height = Float(NormalizedHeight(table.rows[rows[r].index].actor_height))]
            /\ (out.args[2] = Dec(2, 0) /\ out.args[3] = Dec(1, 50)) =>
                  \A r \in 1..Len(rows) :
                     /\ rows[r].row.actor_height.i <= CmThreshold * One
                     /\ rows[r].row.actor_height.i >= Dec(1, 50).i
                     /\ rows[r].row.actor_height.i <= Dec(2, 0).i

\* actor_distributions("All", 2.0, 1.5) has returned a row read as 180 and a row
\* read as the text 2.0, as 1.8 and 2.0
C5_Witness ==
    /\ HeightsCall
    /\ out.args = <<Str("All"), Dec(2, 0), Dec(1, 50)>>
    /\ out.exc = ""
    /\ Len(out.value) = 2
    /\ Ingested("character_metadata").rows[1].actor_height = Dec(180, 0)
    /\ Ingested("character_metadata").rows[2].actor_height = NumStr(2 * One)
    /\ out.value[1].row.actor_height = Dec(1, 80)
    /\ out.value[2].row.actor_height = Dec(2, 0)

\* C6: a call of actor_distributions with a string and two numbers on a loaded
\* table fails with invalid-argument exactly when the gender is not "All" and is
\* not among the non-missing genders of the rows that have a numeric height (a
\* gender found only on rows without one is rejected), and it fails in no other
\* way; a valid gender with an empty height range returns no rows.
C6_InvalidGender ==
    HeightsCall =>
        LET table == Ingested("character_metadata")
        IN  /\ InvalidArgument(out) <=> ~ValidGender(table, out.args[1])
            /\ out.exc # "" => (InvalidArgument(out) /\ out.msg = "Invalid gender value.")
            /\ (/\ ValidGender(table, out.args[1])
                /\ RowsInRange(table, out.args[1], out.args[2], out.args[3]) = {}) =>
                  (out.exc = "" /\ out.value = <<>>)

\* the gender "M" stands on a row only, whose height is no number, and the call
\* with it has been rejected
C6_Witness ==
    /\ HeightsCall
    /\ out.args[1] = Str("M")
    /\ InvalidArgument(out)
    /\ \E k \in 1..Len(Ingested("character_metadata").rows) :
          /\ Ingested("character_metadata").rows[k].actor_gender = Str("M")
          /\ ~HasNumericHeight(Ingested("character_metadata").rows[k].actor_height)

-----------------------------------------------------------------------------
(* releases *)

\* the rows of the table with a parseable release_date, tagged g when g is a
\* non-empty string
ReleasedRows(table, g) ==
    {k \in 1..Len(table.rows) :
       /\ ToDatetime(table.rows[k].release_date).t = "dt"
       /\ (g.t = "str" /\ g.s # "") => g.s \in GenreNamesOf(table.rows[k].genres)}

ReleaseYear(table, k) == ToDatetime(table.rows[k].release_date).d[1]

\* rows <<year, count>>: one per year of the given rows, ascending, with the
\* number of those rows in the year
IsYearHistogram(rows, table, of) ==
    /\ \A r \in 1..Len(rows) :
          /\ rows[r][2] = Cardinality({k \in of : ReleaseYear(table, k) = rows[r][1]})
          /\ rows[r][2] > 0
    /\ \A k \in of : \E r \in 1..Len(rows) : rows[r][1] = ReleaseYear(table, k)
    /\ \A q, r \in 1..Len(rows) : q < r => rows[q][1] < rows[r][1]

\* C7: on a loaded movie_metadata, releases(g) with a non-empty string g has one
\* row per year in which a movie with a parseable release_date carries the genre
\* name g, in ascending order of year, no year zero-filled, and its Movie_Count
\* sums to the number of such movies; with no genre, or an empty one, every movie
\* with a parseable release year is counted.
C7_ReleasesPerYear ==
    (out.op = "releases" /\ Loaded(attrs, "movie_metadata")) =>
        LET table == Ingested("movie_metadata")
            of    == ReleasedRows(table, out.args[1])
        IN  /\ out.exc = ""
            /\ IsYearHistogram(out.value, table, of)
            /\ SumCounts(out.value) = Cardinality(of)

\* C7 on the tables none of whose genres cells is malformed
C7_ReleasesPerYearWellFormed ==
    (/\ out.op = "releases"
     /\ Loaded(attrs, "movie_metadata")
     /\ \A k \in 1..Len(Ingested("movie_metadata").rows) :
           Ingested("movie_metadata").rows[k].genres # GenreBad) =>
        LET table == Ingested("movie_metadata")
            of    == ReleasedRows(table, out.args[1])
        IN  /\ out.exc = ""
            /\ IsYearHistogram(out.value, table, of)
            /\ SumCounts(out.value) = Cardinality(of)

-----------------------------------------------------------------------------
(* ages *)

\* the rows of the table with a parseable actor_dob
BornRows(table) ==
    {k \in 1..Len(table.rows) : ToDatetime(table.rows[k].actor_dob).t = "dt"}

\* rows <<bucket, count>>: one per year (part 1) or month (part 2) of birth found
\* on a row with a parseable actor_dob, ascending, with the number of such rows
IsBirthHistogram(rows, table, part) ==
    /\ \A r \in 1..Len(rows) :
          /\ rows[r][2] = Cardinality({k \in BornRows(table) :
                                          ToDatetime(table.rows[k].actor_dob).d[part] = rows[r][1]})
          /\ rows[r][2] > 0
    /\ \A k \in BornRows(table) :
          \E r \in 1..Len(rows) : rows[r][1] = ToDatetime(table.rows[k].actor_dob).d[part]
    /\ \A q, r \in 1..Len(rows) : q < r => rows[q][1] < rows[r][1]

-----------------------------------------------------------------------------
(* Start-up *)

DownloadFailed == "Download failed" \in Range(log)

ExtractionTried == "Extracting dataset..." \in Range(log)

DirMissingAtIngestion == "Error: Extracted directory does not exist." \in Range(log)

\* C9: when the archive and the extraction directory are both absent and the
\* transfer fails, the construction (download, extraction, ingestion) completes
\* without raising and ends with zero tables loaded.
C9_FailedDownloadNotFatal ==
    (DownloadFailed /\ ExtractionTried) =>
        /\ pc \in {"extracted", "ready"}
        /\ pc = "ready" => attrs = <<>>

IsAggregation(o) ==
    o.op \in {"movie_type", "actor_count", "actor_distributions", "releases", "ages"}

\* the table an aggregation reads
RequiredTable(op) ==
    IF op \in {"movie_type", "releases"} THEN "movie_metadata" ELSE "character_metadata"

\* the table an aggregation reads was recorded as absent by ingestion
RecordedAbsent(o) ==
    /\ RequiredTable(o.op) \in DOMAIN attrs
    /\ attrs[RequiredTable(o.op)].none

\* C10: when the extraction directory is absent at ingestion, ingestion returns
\* normally with zero tables, and from then on every aggregation call with
\* type-valid arguments fails with the missing-data signal; so does a call of an
\* aggregation whose table ingestion recorded as absent.
C10_MissingData ==
    /\ DirMissingAtIngestion => (pc = "ready" /\ attrs = <<>>)
    /\ (/\ pc = "ready"
        /\ IsAggregation(out)
        /\ ~TypeInvalid(out)
        /\ DirMissingAtIngestion \/ RecordedAbsent(out)) => MissingData(out)

\* ages("m") has failed on an instance built without the extraction directory
C10_Witness ==
    /\ DirMissingAtIngestion
    /\ out.op = "ages"
    /\ out.args[1] = Str("m")
    /\ MissingData(out)

-----------------------------------------------------------------------------
(* The signals of failure *)

\* the kind of a failure: the class of the exception raised
Kind(o) == o.exc

\* C11: the missing-data failure and the invalid-argument failure are of
\* different kinds: of two calls made one after the other on an instance, the
\* first failing with invalid-argument and the second with missing-data, the
\* exceptions raised are of different classes.
C11_DistinctKinds ==
    [][(pc = "ready" /\ IsAggregation(out) /\ IsAggregation(out')
        /\ InvalidArgument(out) /\ MissingData(out')) => Kind(out) # Kind(out')]_vars

-----------------------------------------------------------------------------
(* Malformed cells *)

\* some genres cell of the table is text that is no serialized mapping
HasMalformedGenres(table) == \E k \in 1..Len(table.rows) : table.rows[k].genres = GenreBad

\* the table with every such cell taken as missing
WithoutMalformedGenres(table) ==
    [table EXCEPT !.rows = [k \in 1..Len(@) |->
                              IF @[k].genres = GenreBad
                              THEN [@[k] EXCEPT !.genres = GenreNaN]
                              ELSE @[k]]]

\* C12: on a loaded movie_metadata with a malformed genres cell, movie_type(n)
\* with an integer n and releases(g) raise nothing and return what they return
\* on the table with the malformed cells taken as having no genres.
C12_MalformedGenresTolerated ==
    (/\ out.op \in {"movie_type", "releases"}
     /\ ~TypeInvalid(out)
     /\ Loaded(attrs, "movie_metadata")
     /\ HasMalformedGenres(Ingested("movie_metadata"))) =>
        LET clean == [attrs EXCEPT !["movie_metadata"] =
                                      WithoutMalformedGenres(Ingested("movie_metadata"))]
        IN  /\ out.exc = ""
            /\ out.op = "movie_type" => out.value = movie_type(clean, out.args[1]).value
            /\ out.op = "releases" => out.value = releases(clean, out.args[1]).out.value

-----------------------------------------------------------------------------
(* Calls one after another *)

\* what the call op(args) makes of the tables a: its outcome and the tables after
CallOn(a, op, args) ==
    CASE op = "movie_type"  -> [out |-> movie_type(a, args[1]), attrs |-> a]
      [] op = "actor_count" -> [out |-> actor_count(a), attrs |-> a]
      [] op = "actor_distributions" -> actor_distributions(a, args[1], args[2], args[3])
      [] op = "releases"    -> releases(a, args[1])
      [] op = "ages"        -> ages(a, args[1])

\* the tables of a fresh instance over the same extracted files
Fresh == IF dir.exists THEN LoadAll(dir.files) ELSE <<>>

\* C13: the outcome of an aggregation call is the one the same call has on a
\* fresh instance over the same files, whatever calls were made before it.
C13_NoCarriedState ==
    (pc = "ready" /\ IsAggregation(out)) => out = CallOn(Fresh, out.op, out.args).out

\* the calls of the model, as <<op, args>>
Calls ==
    {<<"movie_type", <<n>> >> : n \in TopNs} \cup {<<"actor_count", <<>> >>} \cup
    {<<"actor_distributions", <<g, l[1], l[2]>> >> : g \in Genders, l \in HeightLimits} \cup
    {<<"releases", <<g>> >> : g \in Genres} \cup {<<"ages", <<m>> >> : m \in Modes}

\* an aggregation call that failed with one of the two signals
Failed(o) == IsAggregation(o) /\ (InvalidArgument(o) \/ MissingData(o))

\* one more call from the tables a and from the tables b: whether the outcomes
\* agree, and the tables each is left with
OneMore(a, b) ==
    {LET ra == CallOn(a, c[1], c[2])
         rb == CallOn(b, c[1], c[2])
     IN  <<ra.out = rb.out, ra.attrs, rb.attrs>> : c \in Calls}

RECURSIVE SameLater(_, _, _)
\* every sequence of at most n calls has the same outcomes from the tables a as
\* from the tables b; equal tables need no look, and a call that leaves both as
\* they were opens no sequence the others do not
SameLater(a, b, n) ==
    \/ a = b
    \/ n = 0
    \/ \A s \in OneMore(a, b) :
          /\ s[1]
          /\ (s[2] = a /\ s[3] = b) \/ SameLater(s[2], s[3], n - 1)

\* C14: after an aggregation call that fails with invalid-argument or
\* missing-data, every later call has the outcome it has from the tables as
\* they were before the failed call.
C14_FailureLeavesLaterCalls ==
    [][(pc = "ready" /\ pc' = "ready" /\ Failed(out')) =>
          SameLater(attrs', attrs, MaxLaterCalls)]_vars

\* a call with a gender the table does not have has failed, the heights of the
\* shared table coerced by it
C14_Witness ==
    /\ Failed(out)
    /\ out.msg = "Invalid gender value."
    /\ attrs["character_metadata"] # Ingested("character_metadata")

-----------------------------------------------------------------------------
(* The tables after ingestion *)

\* the cell is the ingested one, or its coercion in a column the aggregations coerce
CoercedCell(column, cell, ingested) ==
    \/ cell = ingested
    \/ column \in {"release_date", "actor_dob"} /\ cell = ToDatetime(ingested)
    \/ column = "actor_height" /\ cell = ToNumeric(ingested)

\* the same rows in the same order, each cell the ingested one or its coercion
SameRows(table, ingested) ==
    /\ table.none = ingested.none
    /\ Len(table.rows) = Len(ingested.rows)
    /\ \A k \in 1..Len(ingested.rows) :
          \A c \in DOMAIN ingested.rows[k] :
             /\ c \in DOMAIN table.rows[k]
             /\ CoercedCell(c, table.rows[k][c], ingested.rows[k][c])

\* C15: after any sequence of aggregation calls every table has the rows of
\* ingestion in their order, changed by in-place coercion of release_date,
\* actor_dob and actor_height only, and the ordered column names of ingestion.
C15_OnlyCoercion ==
    pc = "ready" =>
        /\ DOMAIN attrs = DOMAIN Fresh
        /\ \A name \in DOMAIN attrs :
              /\ SameRows(attrs[name], Fresh[name])
              /\ attrs[name].columns = Fresh[name].columns

\* C15 without the column names: the rows of ingestion, coerced in place
C15_RowsKept ==
    pc = "ready" =>
        /\ DOMAIN attrs = DOMAIN Fresh
        /\ \A name \in DOMAIN attrs : SameRows(attrs[name], Fresh[name])

-----------------------------------------------------------------------------
(* Ingestion of a file whose column count is not the schema's *)

\* the files of the directory that ingestion reads as a table of a recognized name
SchemaFiles ==
    {p \in DOMAIN dir.files :
       /\ Suffix(p) \in {".tsv", ".txt"}
       /\ dir.files[p].kind = "tsv"
       /\ DatasetName(p) \in DOMAIN column_names}

Mismatched(p) == dir.files[p].ncols # Len(column_names[DatasetName(p)])

\* C16, as claimed: a file of a recognized table name whose column count differs
\* from the length of the schema list is loaded all the same, its table present
\* with the rows of the file.
C16_MismatchLoaded ==
    (pc = "ready" /\ dir.exists) =>
        \A p \in SchemaFiles :
           Mismatched(p) =>
              /\ Loaded(attrs, DatasetName(p))
              /\ Len(attrs[DatasetName(p)].rows) = Len(dir.files[p].rows)

\* C16, amended: such a file's table is recorded as absent (the attribute is
\* set, to None) and the scan goes on: every file of a recognized name whose
\* column count is the schema's is loaded, its rows those of the file and its
\* columns labelled with the schema's names.
C16_MismatchRecordedAbsent ==
    (pc = "ready" /\ dir.exists) =>
        \A p \in SchemaFiles :
           IF Mismatched(p)
           THEN DatasetName(p) \in DOMAIN attrs /\ attrs[DatasetName(p)].none
           ELSE /\ Loaded(attrs, DatasetName(p))
                /\ SubSeq(attrs[DatasetName(p)].columns, 1,
                          Len(column_names[DatasetName(p)])) = column_names[DatasetName(p)]
                /\ Len(attrs[DatasetName(p)].rows) = Len(dir.files[p].rows)

\* movie_metadata was read with a column short and is recorded as absent, next
\* to a loaded character_metadata
C16_Witness ==
    /\ pc = "ready"
    /\ dir.exists
    /\ MovieFile \in SchemaFiles
    /\ Mismatched(MovieFile)
    /\ attrs["movie_metadata"].none
    /\ Loaded(attrs, "character_metadata")

-----------------------------------------------------------------------------
(* Height normalization *)

\* the numeric heights of the ingested table, as numbers
RawHeights ==
    {ToNumeric(Ingested("character_metadata").rows[k].actor_height) :
       k \in {j \in 1..Len(Ingested("character_metadata").rows) :
                HasNumericHeight(Ingested("character_metadata").rows[j].actor_height)}}

\* every row a call returned carries the normalization of its raw height
ReturnedNormalized ==
    out.exc = "" =>
       \A r \in 1..Len(out.value) :
          out.value[r].row.actor_height =
             Standardize(ToNumeric(
                Ingested("character_metadata").rows[out.value[r].index].actor_height))

\* the raw height h is normalized to n: h/100 when h > 10, h itself otherwise
NormalizedTo(h, n) ==
    /\ h.i > CmThreshold * One => n.i * CmPerMeter = h.i
    /\ h.i <= CmThreshold * One => n = h

\* C17, as claimed: the normalization actor_distributions applies maps every raw
\* height h > 10 to h/100 and leaves every h <= 10 unchanged, and normalizing a
\* normalized value returns that value, for every raw height.
C17_NormalizationIdempotent ==
    HeightsCall =>
        /\ ReturnedNormalized
        /\ \A h \in RawHeights :
              /\ NormalizedTo(h, Standardize(h))
              /\ Standardize(Standardize(h)) = Standardize(h)

\* C17, amended: the normalization maps every raw height h > 10 to h/100 and
\* leaves every h <= 10 unchanged; normalizing a normalized value returns that
\* value for every raw height up to 1000, and for a raw height over 1000, whose
\* normalized value is still over 10, it divides by 100 once more.
C17_NormalizationIdempotentToThousand ==
    HeightsCall =>
        /\ ReturnedNormalized
        /\ \A h \in RawHeights :
              /\ NormalizedTo(h, Standardize(h))
              /\ h.i <= CmThreshold * CmPerMeter * One =>
                    Standardize(Standardize(h)) = Standardize(h)
              /\ h.i > CmThreshold * CmPerMeter * One =>
                    /\ Standardize(Standardize(h)) # Standardize(h)
                    /\ NormalizedTo(Standardize(h), Standardize(Standardize(h)))

\* a call has returned the row read as 180 with the height 1.8, from a table that
\* also has a row read as 1500
C17_Witness ==
    /\ HeightsCall
    /\ out.exc = ""
    /\ Dec(1500, 0) \in RawHeights
    /\ \E r \in 1..Len(out.value) :
          /\ Ingested("character_metadata").rows[out.value[r].index].actor_height = Dec(180, 0)
          /\ out.value[r].row.actor_height = Dec(1, 80)

-----------------------------------------------------------------------------
(* The archive across process starts *)

\* C18: after a start whose download failed, before or in the middle of the
\* transfer, no file is at the archive path, so that the next start downloads
\* again.
C18_FailedDownloadLeavesNoArchive ==
    DownloadFailed => archive = "absent"

====
